---- MODULE Spec2Model ----
(***************************************************************************)
(* A model of svd2rust's code generator (src/src/lib.rs).                  *)
(*                                                                         *)
(*  Spec     gen_peripheral's first half: expand() flattens the register   *)
(*           list and sorts it, then the layout loop walks it with a       *)
(*           cursor, inserting padding and skipping overlaps.              *)
(*  SpecReg  gen_peripheral's second half: for every register, access(),   *)
(*           gen_register() and the heads of gen_register_r/gen_register_w *)
(*           decide which items are emitted.                               *)
(*  SpecApi  the behaviour of the code emitted for one read-write register *)
(*           with fields: read, write, modify and the field setters and    *)
(*           getters acting on the register's storage.                     *)
(*                                                                         *)
(* Strings are sequences of one-character strings, so that replace(),      *)
(* to_string() and the case conversions are computed and not assumed.      *)
(***************************************************************************)
EXTENDS Integers, Sequences, FiniteSets, TLC

VARIABLES
    registers,   \* p.registers: the peripheral's declared registers
    d,           \* the Defaults (size, reset_value)
    pc,          \* position of the generator / of the generated code
    expanded,    \* the Vec<ExpandedRegister> returned by expand()
    k,           \* position of gen_peripheral's loops in their lists
    offset,      \* gen_peripheral's layout cursor
    i,           \* gen_peripheral's counter of _reservedN fields
    fields,      \* gen_peripheral's list of struct fields (the layout)
    items,       \* the items emitted for the registers
    acc,         \* gen_peripheral's `access` of the register at hand
    hw,          \* the storage behind the generated register
    rbits,       \* bits of the read proxy of read, and of modify while it runs
    wbits,       \* bits of the write proxy of modify and write
    log,         \* volatile accesses of the operation running or just over
    touched,     \* fields whose setters the running closure has invoked
    last,        \* the operation of the generated API completed last
    calls        \* number of operations of the generated API completed

vars == <<registers, d, pc, expanded, k, offset, i, fields, items, acc,
          hw, rbits, wbits, log, touched, last, calls>>

genVars == <<expanded, k, offset, i, fields, items, acc>>
apiVars == <<hw, rbits, wbits, log, touched, last, calls>>

\* Option<T>: None is the empty tuple, Some(x) the tuple of x
None == <<>>

Some(x) == <<x>>

unwrap(o) == o[1]

(***************************************************************************)
(* Bounds of the model.                                                    *)
(***************************************************************************)
MaxRegs == 2        \* registers declared by a peripheral
MaxFields == 2      \* fields declared by a register
MaxSetters == 2     \* setters one closure invokes
MaxCalls == 2       \* operations of the generated API in one run
MaxCodeBits == 3    \* codes of a field are tried up to this many bits

(***************************************************************************)
(* Strings.                                                                *)
(***************************************************************************)
UpperCase == <<"A", "B", "C", "D", "E", "F", "G", "H", "R", "S", "V", "W">>
LowerCase == <<"a", "b", "c", "d", "e", "f", "g", "h", "r", "s", "v", "w">>

Lower == [c \in {UpperCase[n] : n \in DOMAIN UpperCase} |->
            LowerCase[CHOOSE n \in DOMAIN UpperCase : UpperCase[n] = c]]

Upper == [c \in {LowerCase[n] : n \in DOMAIN LowerCase} |->
            UpperCase[CHOOSE n \in DOMAIN LowerCase : LowerCase[n] = c]]

Digits == <<"0", "1", "2", "3", "4", "5", "6", "7", "8", "9">>

IsDigit(c) == \E n \in 1..10 : Digits[n] = c

ToLowerChar(c) == IF c \in DOMAIN Lower THEN Lower[c] ELSE c

ToUpperChar(c) == IF c \in DOMAIN Upper THEN Upper[c] ELSE c

\* inflections' to_snake_case on a one-word identifier: every letter lowered
to_snake_case(s) == [n \in 1..Len(s) |-> ToLowerChar(s[n])]

\* inflections' to_pascal_case on a one-word identifier: capitalised
to_pascal_case(s) ==
    [n \in 1..Len(s) |-> IF n = 1 THEN ToUpperChar(s[n]) ELSE ToLowerChar(s[n])]

FirstChar(s) == IF Len(s) = 0 THEN "\\0" ELSE s[1]

Keywords == {<<"f", "n">>, <<"i", "n">>, <<"m", "a", "t", "c", "h">>, <<"m", "o", "d">>}

to_sanitized_snake_case(s) ==
    IF IsDigit(FirstChar(s)) THEN <<"_">> \o to_snake_case(s)
    ELSE IF s \in Keywords THEN s \o <<"_">>
    ELSE to_snake_case(s)

to_sanitized_pascal_case(s) ==
    IF IsDigit(FirstChar(s)) THEN <<"_">> \o to_pascal_case(s)
    ELSE to_pascal_case(s)

\* str::contains
Contains(s, pat) ==
    \E n \in 1..(Len(s) - Len(pat) + 1) : SubSeq(s, n, n + Len(pat) - 1) = pat

\* str::replace: every non-overlapping match, left to right
RECURSIVE Replace(_, _, _)
Replace(s, pat, rep) ==
    IF Len(s) < Len(pat) THEN s
    ELSE IF SubSeq(s, 1, Len(pat)) = pat
         THEN rep \o Replace(SubSeq(s, Len(pat) + 1, Len(s)), pat, rep)
         ELSE <<Head(s)>> \o Replace(Tail(s), pat, rep)

\* u32::to_string
RECURSIVE to_string(_)
to_string(n) ==
    IF n < 10 THEN <<Digits[n + 1]>>
    ELSE to_string(n \div 10) \o <<Digits[(n % 10) + 1]>>

Brackets == <<"[", "%", "s", "]">>
Percent == <<"%", "s">>

(***************************************************************************)
(* expand(): the register list, arrays flattened, sorted by offset.        *)
(***************************************************************************)
ExpandSingle(n, info) ==
    << [info |-> n,
        name |-> to_sanitized_snake_case(info.name),
        offset |-> info.address_offset,
        ty |-> [tag |-> "Left", name |-> to_sanitized_pascal_case(info.name)]] >>

ArrayTy(info) ==
    to_sanitized_pascal_case(
        IF Contains(info.name, Brackets)
        THEN Replace(info.name, Brackets, <<>>)
        ELSE Replace(info.name, Percent, <<>>))

\* array_info.dim_index, or "0" .. "dim-1"
Indices(info) ==
    IF info.dim_index # None THEN unwrap(info.dim_index)
    ELSE [n \in 1..info.dim |-> to_string(n - 1)]

InstanceName(info, idx) ==
    IF Contains(info.name, Brackets)
    THEN Replace(info.name, Brackets, idx)
    ELSE Replace(info.name, Percent, idx)

\* a slip that numbers the instances from 1
InstanceOffsetFromOne(info, pos) ==
    info.address_offset + (pos + 1) * info.dim_increment

InstanceOffset(info, pos) == info.address_offset + pos * info.dim_increment

ExpandArray(n, info) ==
    [p \in 1..Len(Indices(info)) |->
        [info |-> n,
         name |-> to_sanitized_snake_case(InstanceName(info, Indices(info)[p])),
         offset |-> InstanceOffset(info, p - 1),
         ty |-> [tag |-> "Right", name |-> ArrayTy(info)]]]

RECURSIVE ExpandAll(_, _)
ExpandAll(regs, n) ==
    IF n > Len(regs) THEN <<>>
    ELSE (IF regs[n].kind = "Single" THEN ExpandSingle(n, regs[n])
          ELSE ExpandArray(n, regs[n])) \o ExpandAll(regs, n + 1)

\* x goes behind every element whose key is not larger: the sort is stable
RECURSIVE InsertByOffset(_, _)
InsertByOffset(sorted, x) ==
    IF sorted = <<>> THEN <<x>>
    ELSE IF sorted[Len(sorted)].offset <= x.offset THEN Append(sorted, x)
    ELSE Append(InsertByOffset(SubSeq(sorted, 1, Len(sorted) - 1), x),
                sorted[Len(sorted)])

\* a slip: the list is left as declared
Unsorted(s) == s

RECURSIVE SortByOffset(_)
SortByOffset(s) ==
    IF s = <<>> THEN <<>>
    ELSE InsertByOffset(SortByOffset(SubSeq(s, 1, Len(s) - 1)), s[Len(s)])

expand(regs) == SortByOffset(ExpandAll(regs, 1))

(***************************************************************************)
(* The inputs of Spec: peripherals of up to MaxRegs registers.             *)
(***************************************************************************)
Name_SR == <<"S", "R">>
Name_CR == <<"C", "R">>
Name_CH == <<"C", "H", "[", "%", "s", "]">>
Name_R == <<"R", "%", "s">>

\* sizes in bits: absent, below one byte, four bytes
LayoutSizes == {None, Some(4), Some(32)}

SingleRegs ==
    [kind : {"Single"}, name : {Name_SR, Name_CR}, address_offset : {0, 4},
     size : LayoutSizes, access : {None}, reset_value : {None},
     fields : {None}, dim : {0}, dim_increment : {0}, dim_index : {None}]

ArrayRegs ==
    [kind : {"Array"}, name : {Name_CH, Name_R}, address_offset : {4},
     size : {None, Some(16)}, access : {None}, reset_value : {None},
     fields : {None}, dim : {2}, dim_increment : {2, 4},
     dim_index : {None, Some(<<<<"B">>, <<"A">>, <<"1">>>>)}]

\* the register array of the README: CH[%s], four instances from 0x10 on
ExampleArray ==
    [kind |-> "Array", name |-> Name_CH, address_offset |-> 16,
     size |-> None, access |-> None, reset_value |-> None,
     fields |-> None, dim |-> 4, dim_increment |-> 4, dim_index |-> None]

LayoutPool == SingleRegs \cup ArrayRegs \cup {ExampleArray}

SeqsUpTo(S, n) == UNION {[1..m -> S] : m \in 0..n}

NoCall == [op |-> "none", identity |-> FALSE, after |-> <<"none", FALSE>>]

NoApi ==
    /\ hw = 0 /\ rbits = 0 /\ wbits = 0 /\ log = <<>>
    /\ touched = {} /\ last = NoCall /\ calls = 0

Init ==
    /\ registers \in SeqsUpTo(LayoutPool, MaxRegs)
    /\ d \in [size : {None, Some(32)}, reset_value : {None}]
    /\ pc = "start"
    /\ expanded = <<>>
    /\ k = 0
    /\ offset = 0
    /\ i = 0
    /\ fields = <<>>
    /\ items = <<>>
    /\ acc = None
    /\ NoApi

(***************************************************************************)
(* gen_peripheral: the layout loop.                                        *)
(***************************************************************************)
\* the saturating subtraction a slip would use
saturating_sub(a, b) == IF a >= b THEN Some(a - b) ELSE Some(0)

\* u32::checked_sub
checked_sub(a, b) == IF a >= b THEN Some(a - b) ELSE None

\* info.size.or(d.size)
SizeOr(info) == IF info.size # None THEN info.size ELSE d.size

\* the cursor behind a register of `size` bits at `off`
EndOf(off, size) == off + size \div 8

PadField(pad) == [kind |-> "pad", n |-> i, bytes |-> pad, pos |-> 0]

\* the struct field of expanded[p]; pos remembers which entry it came from
RegField(p) ==
    [kind |-> "reg",
     name |-> to_sanitized_snake_case(expanded[p].name),
     ty |-> expanded[p].ty.name,
     doc |-> expanded[p].offset,
     pos |-> p]

\* for register in expand(registers).iter()
Expand ==
    /\ pc = "start"
    /\ expanded' = expand(registers)
    /\ k' = 1
    /\ pc' = "layout"
    /\ UNCHANGED <<registers, d, offset, i, fields, items, acc>>
    /\ UNCHANGED apiVars

\* checked_sub fails: the warning, and `continue`
LayoutOverlap ==
    /\ pc = "layout"
    /\ k <= Len(expanded)
    /\ checked_sub(expanded[k].offset, offset) = None
    /\ k' = k + 1
    /\ UNCHANGED <<registers, d, pc, expanded, offset, i, fields, items, acc>>
    /\ UNCHANGED apiVars

\* the fields pushed by one iteration of the loop
Pushed(pad, p) ==
    (IF pad # 0 THEN <<PadField(pad)>> ELSE <<>>) \o <<RegField(p)>>

LayoutField ==
    /\ pc = "layout"
    /\ k <= Len(expanded)
    /\ LET pad == checked_sub(expanded[k].offset, offset)
           size == SizeOr(registers[expanded[k].info])
       IN  /\ pad # None
           /\ size # None
           /\ fields' = fields \o Pushed(unwrap(pad), k)
           /\ i' = IF unwrap(pad) # 0 THEN i + 1 ELSE i
           /\ offset' = EndOf(expanded[k].offset, unwrap(size))
    /\ k' = k + 1
    /\ UNCHANGED <<registers, d, pc, expanded, items, acc>>
    /\ UNCHANGED apiVars

\* neither the register nor the defaults give a size: expect() panics
LayoutNoSize ==
    /\ pc = "layout"
    /\ k <= Len(expanded)
    /\ LET pad == checked_sub(expanded[k].offset, offset)
       IN  /\ pad # None
           /\ SizeOr(registers[expanded[k].info]) = None
           /\ fields' = fields \o Pushed(unwrap(pad), k)
           /\ i' = IF unwrap(pad) # 0 THEN i + 1 ELSE i
    /\ pc' = "panic"
    /\ UNCHANGED <<registers, d, expanded, k, offset, items, acc>>
    /\ UNCHANGED apiVars

\* the loop is over: the struct is emitted and the register loop begins
LayoutDone ==
    /\ pc = "layout"
    /\ k > Len(expanded)
    /\ items' = Append(items, [item |-> "block", fields |-> fields])
    /\ k' = 1
    /\ pc' = "registers"
    /\ UNCHANGED <<registers, d, expanded, offset, i, fields, acc>>
    /\ UNCHANGED apiVars

Next == Expand \/ LayoutOverlap \/ LayoutField \/ LayoutNoSize \/ LayoutDone

Spec == Init /\ [][Next]_vars

(***************************************************************************)
(* gen_peripheral: the register loop. access(), gen_register() and the     *)
(* items of gen_register_r() and gen_register_w().                         *)
(***************************************************************************)
\* svd::Access
Access == {"ReadOnly", "ReadWrite", "ReadWriteOnce", "WriteOnce", "WriteOnly"}

\* fields.iter().all(|f| f.access == Some(a))
AllFields(flds, a) == \A n \in DOMAIN flds : flds[n].access = Some(a)

\* a slip: any() where all() is meant
accessAny(r) ==
    IF r.access # None THEN unwrap(r.access)
    ELSE IF r.fields # None
         THEN IF \E n \in DOMAIN unwrap(r.fields) :
                    unwrap(r.fields)[n].access = Some("ReadOnly")
              THEN "ReadOnly"
              ELSE IF \E n \in DOMAIN unwrap(r.fields) :
                        unwrap(r.fields)[n].access = Some("WriteOnly")
                   THEN "WriteOnly"
                   ELSE "ReadWrite"
         ELSE "ReadWrite"

access(r) ==
    IF r.access # None THEN unwrap(r.access)
    ELSE IF r.fields # None
         THEN IF AllFields(unwrap(r.fields), "ReadOnly") THEN "ReadOnly"
              ELSE IF AllFields(unwrap(r.fields), "WriteOnly") THEN "WriteOnly"
              ELSE "ReadWrite"
         ELSE "ReadWrite"

type_of(r) ==
    to_sanitized_pascal_case(
        IF r.kind = "Single" THEN r.name
        ELSE IF Contains(r.name, Brackets)
             THEN Replace(r.name, Brackets, <<>>)
             ELSE Replace(r.name, Percent, <<>>))

\* U32Ext::to_ty: the storage type of a width, None where it panics
to_ty(width) ==
    IF width >= 1 /\ width <= 8 THEN Some("u8")
    ELSE IF width >= 9 /\ width <= 16 THEN Some("u16")
    ELSE IF width >= 17 /\ width <= 32 THEN Some("u32")
    ELSE None

TyBits(ty) == CASE ty = "u8" -> 8 [] ty = "u16" -> 16 [] ty = "u32" -> 32

\* r.size.or(d.size), and r.reset_value.or(d.reset_value)
SizeOf(r) == IF r.size # None THEN r.size ELSE d.size

ResetOf(r) == IF r.reset_value # None THEN r.reset_value ELSE d.reset_value

Method(name, form) == [name |-> name, form |-> form]

\* a slip: the read-write impl of a register without fields gains nothing,
\* the read-only impl of a register with fields gains write_bits
OperationsSlip(a, has_fields) ==
    IF has_fields
    THEN CASE a = "ReadOnly" ->
                {Method("read_bits", "raw"), Method("read", "proxy"),
                 Method("write_bits", "raw")}
           [] a = "ReadWrite" ->
                {Method("read_bits", "raw"), Method("modify_bits", "raw"),
                 Method("write_bits", "raw"), Method("modify", "proxies"),
                 Method("read", "proxy"), Method("write", "builder")}
           [] a = "WriteOnly" ->
                {Method("write_bits", "raw"), Method("write", "builder")}
    ELSE CASE a = "ReadOnly" -> {Method("read", "raw")}
           [] a = "ReadWrite" -> {Method("read", "raw"), Method("write", "value")}
           [] a = "WriteOnly" -> {Method("write", "value")}

\* the methods of `impl #name`, by access mode and r.fields.is_some()
Operations(a, has_fields) ==
    IF has_fields
    THEN CASE a = "ReadOnly" ->
                {Method("read_bits", "raw"), Method("read", "proxy")}
           [] a = "ReadWrite" ->
                {Method("read_bits", "raw"), Method("modify_bits", "raw"),
                 Method("write_bits", "raw"), Method("modify", "proxies"),
                 Method("read", "proxy"), Method("write", "builder")}
           [] a = "WriteOnly" ->
                {Method("write_bits", "raw"), Method("write", "builder")}
    ELSE CASE a = "ReadOnly" -> {Method("read", "raw")}
           [] a = "ReadWrite" -> {Method("read", "raw"), Method("write", "value")}
           [] a = "WriteOnly" -> {Method("write", "value")}

\* the functions of other items that the bodies of the methods call:
\* the builder-form write starts from #name_w::reset_value()
Calls(methods) ==
    IF Method("write", "builder") \in methods THEN {"W::reset_value"} ELSE {}

\* the wrapper of ::volatile_register the struct holds
Wrapper(a) ==
    CASE a = "ReadOnly" -> "RO" [] a = "ReadWrite" -> "RW" [] a = "WriteOnly" -> "WO"

\* gen_register's two items
gen_register(r) ==
    LET ty == type_of(r)
        a == access(r)
        methods == Operations(a, r.fields # None)
    IN  << [item |-> "struct", name |-> ty, wrapper |-> Wrapper(a),
            bits_ty |-> unwrap(to_ty(unwrap(SizeOf(r))))],
           [item |-> "impl", name |-> ty, methods |-> methods,
            accessors |-> {}, calls |-> Calls(methods)] >>

\* .expect() on the size, to_ty(), and the two unreachable!() arms
GenRegisterPanics(r) ==
    IF SizeOf(r) = None THEN TRUE
    ELSE IF to_ty(unwrap(SizeOf(r))) = None THEN TRUE
    ELSE access(r) \notin {"ReadOnly", "ReadWrite", "WriteOnly"}

Reserved == <<"r", "e", "s", "e", "r", "v", "e", "d">>

\* str::to_lowercase
to_lowercase(s) == [n \in 1..Len(s) |-> ToLowerChar(s[n])]

\* the fields gen_register_r gives an accessor
ReadableFields(flds) ==
    {n \in DOMAIN flds :
        /\ to_lowercase(flds[n].name) # Reserved
        /\ flds[n].access # Some("WriteOnly")}

\* the fields gen_register_w gives a setter
WritableFields(flds) ==
    {n \in DOMAIN flds :
        /\ to_lowercase(flds[n].name) # Reserved
        /\ flds[n].access # Some("ReadOnly")}

MinOf(S) == CHOOSE x \in S : \A y \in S : x <= y

\* str::split('.')
RECURSIVE SplitDot(_)
SplitDot(s) ==
    LET dots == {n \in DOMAIN s : s[n] = "."}
    IN  IF dots = {} THEN <<s>>
        ELSE <<SubSeq(s, 1, MinOf(dots) - 1)>>
                \o SplitDot(SubSeq(s, MinOf(dots) + 1, Len(s)))

\* haystack.iter().flat_map(|f| f.enumerated_values.iter())
RECURSIVE FlatSets(_)
FlatSets(flds) ==
    IF flds = <<>> THEN <<>>
    ELSE Head(flds).enumerated_values \o FlatSets(Tail(flds))

NoEvs == [name |-> None, derived_from |-> None, usage |-> None, values |-> <<>>]

Resolved(evs, derived, base) ==
    [tag |-> "Some", evs |-> evs, derived |-> derived, base |-> base]

Unresolved(tag) == [tag |-> tag, evs |-> NoEvs, derived |-> FALSE, base |-> None]

\* the set a derived_from names: "R.F" looks at the fields of register R
\* for a set named F, a bare name at the fields of this register; a set
\* whose usage is `excluded` does not count
Derived(base, flds, all, excluded) ==
    LET qualified == Contains(base, <<".">>)
        parts == SplitDot(base)
        regs == {n \in DOMAIN all : all[n].name = parts[1]}
    IN  IF qualified /\ regs = {} THEN Unresolved("Panic")
        ELSE IF qualified /\ all[MinOf(regs)].fields = None THEN Unresolved("Panic")
        ELSE LET haystack == IF qualified THEN unwrap(all[MinOf(regs)].fields)
                             ELSE flds
                 needle == IF qualified THEN parts[2] ELSE base
                 sets == FlatSets(haystack)
                 hits == {n \in DOMAIN sets :
                            /\ sets[n].name = Some(needle)
                            /\ sets[n].usage # Some(excluded)}
             IN  IF hits = {} THEN Unresolved("Panic")
                 ELSE Resolved(sets[MinOf(hits)], TRUE,
                               IF qualified THEN Some(parts[1]) ELSE None)

\* `evalues`: the one set of the field, followed through its derived_from,
\* or of several sets the first whose usage is `wanted` or ReadWrite
Evalues(f, flds, all, excluded, wanted) ==
    IF Len(f.enumerated_values) = 1
    THEN LET evs == f.enumerated_values[1]
         IN  IF evs.derived_from # None
             THEN Derived(unwrap(evs.derived_from), flds, all, excluded)
             ELSE Resolved(evs, FALSE, None)
    ELSE LET hits == {n \in DOMAIN f.enumerated_values :
                        f.enumerated_values[n].usage
                            \in {Some(wanted), Some("ReadWrite")}}
         IN  IF hits = {} THEN Unresolved("None")
             ELSE Resolved(f.enumerated_values[MinOf(hits)], FALSE, None)

ReadEvalues(f, flds, all) == Evalues(f, flds, all, "Write", "Read")

WriteEvalues(f, flds, all) == Evalues(f, flds, all, "Read", "Write")

Pow2(n) == 2 ^ n

\* `1 << width` on u32, the type of the codes: at 32 bits the shift
\* overflows, and a build without overflow checks shifts by width % 32
Shl1(width) == Pow2(width % 32)

\* the shift overflows: a build with overflow checks panics there
ShlOverflows(width) == width >= 32

\* format!("{:b}", n)
RECURSIVE Binary(_)
Binary(n) ==
    IF n < 2 THEN <<Digits[n + 1]>>
    ELSE Binary(n \div 2) \o <<Digits[(n % 2) + 1]>>

\* a slip: the literal of the arms counts from one
ReadVariantOffByOne(evs, c) ==
    LET hits == {n \in DOMAIN evs.values : evs.values[n].value = Some(c)}
    IN  IF hits # {}
        THEN [name |-> to_sanitized_pascal_case(evs.values[MinOf(hits)].name),
              value |-> c + 1, reserved |-> FALSE]
        ELSE [name |-> <<"_Reserved">> \o Binary(c),
              value |-> c + 1, reserved |-> TRUE]

\* the variant of the read enum for code c: the first value declared with
\* that code, else a hidden _Reserved one
ReadVariant(evs, c) ==
    LET hits == {n \in DOMAIN evs.values : evs.values[n].value = Some(c)}
    IN  IF hits # {}
        THEN [name |-> to_sanitized_pascal_case(evs.values[MinOf(hits)].name),
              value |-> c, reserved |-> FALSE]
        ELSE [name |-> <<"_Reserved">> \o Binary(c),
              value |-> c, reserved |-> TRUE]

ReadEnumName(r, f, ev) ==
    type_of(r) \o <<"R">> \o
        (IF ev.evs.name # None THEN to_pascal_case(unwrap(ev.evs.name))
         ELSE to_pascal_case(f.name))

WriteEnumName(r, f, ev) ==
    type_of(r) \o <<"W">> \o
        (IF ev.evs.name # None THEN to_sanitized_pascal_case(unwrap(ev.evs.name))
         ELSE to_sanitized_pascal_case(f.name))

\* the enum body of a read view: one variant for each code of the field
\* (for i in 0..(1 << width)), with `fn from` and `fn bits`; `of` remembers
\* the field whose iteration emitted it
ReadEnum(r, f, ev) ==
    [item |-> "enum", name |-> ReadEnumName(r, f, ev), from |-> TRUE, of |-> f,
     variants |-> [c \in 1..Shl1(f.bit_range.width) |-> ReadVariant(ev.evs, c - 1)]]

\* the enum body of a write view: one variant for each declared value,
\* with `fn bits` only
WriteEnum(r, f, ev) ==
    [item |-> "enum", name |-> WriteEnumName(r, f, ev), from |-> FALSE, of |-> f,
     variants |-> [n \in DOMAIN ev.evs.values |->
                    [name |-> to_sanitized_pascal_case(ev.evs.values[n].name),
                     value |-> unwrap(ev.evs.values[n].value),
                     reserved |-> FALSE]]]

\* `pub type #enum_ident = #origin;`
Alias(name, origin) == [item |-> "type", name |-> name, origin |-> origin]

\* the items one field adds to gen_register_r's: the body of its enum
\* unless derived, and an alias to the base register's enum, once a name
ReadFieldItems(r, f, ev, aliases) ==
    IF ev.tag # "Some" THEN <<>>
    ELSE (IF ev.derived THEN <<>> ELSE <<ReadEnum(r, f, ev)>>) \o
         (IF ev.base # None /\ ReadEnumName(r, f, ev) \notin aliases
          THEN <<Alias(ReadEnumName(r, f, ev),
                       to_sanitized_pascal_case(unwrap(ev.base)) \o <<"R">> \o
                       (IF ev.evs.name # None
                        THEN to_pascal_case(unwrap(ev.evs.name))
                        ELSE to_pascal_case(f.name)))>>
          ELSE <<>>)

\* `_{rname}W{field}`: the sub-proxy with one method for each value
ProxyName(r, f) ==
    <<"_">> \o type_of(r) \o <<"W">> \o to_sanitized_pascal_case(f.name)

WriteFieldItems(r, f, ev, aliases) ==
    IF ev.tag # "Some" THEN <<>>
    ELSE << [item |-> "struct", name |-> ProxyName(r, f), bits_ty |-> "&mut W"],
            [item |-> "impl", name |-> ProxyName(r, f), methods |-> {},
             accessors |-> {[name |-> to_sanitized_snake_case(ev.evs.values[n].name),
                             form |-> "variant"] : n \in DOMAIN ev.evs.values},
             calls |-> {}] >> \o
         (IF ev.derived THEN <<>> ELSE <<WriteEnum(r, f, ev)>>) \o
         (IF ev.base # None /\ WriteEnumName(r, f, ev) \notin aliases
          THEN <<Alias(WriteEnumName(r, f, ev),
                       to_sanitized_pascal_case(unwrap(ev.base)) \o <<"W">> \o
                       (IF ev.evs.name # None
                        THEN to_sanitized_pascal_case(unwrap(ev.evs.name))
                        ELSE to_sanitized_pascal_case(f.name)))>>
          ELSE <<>>)

AliasNames(its) == {its[n].name : n \in {m \in DOMAIN its : its[m].item = "type"}}

\* the loop over the fields of gen_register_r, from field n on
RECURSIVE ReadLoop(_, _, _, _, _)
ReadLoop(r, flds, all, n, aliases) ==
    IF n > Len(flds) THEN <<>>
    ELSE IF n \notin ReadableFields(flds) THEN ReadLoop(r, flds, all, n + 1, aliases)
    ELSE LET its == ReadFieldItems(r, flds[n], ReadEvalues(flds[n], flds, all), aliases)
         IN  its \o ReadLoop(r, flds, all, n + 1, aliases \cup AliasNames(its))

\* the loop over the fields of gen_register_w, from field n on
RECURSIVE WriteLoop(_, _, _, _, _)
WriteLoop(r, flds, all, n, aliases) ==
    IF n > Len(flds) THEN <<>>
    ELSE IF n \notin WritableFields(flds) THEN WriteLoop(r, flds, all, n + 1, aliases)
    ELSE LET its == WriteFieldItems(r, flds[n], WriteEvalues(flds[n], flds, all), aliases)
         IN  its \o WriteLoop(r, flds, all, n + 1, aliases \cup AliasNames(its))

\* the accessor of the read proxy: the enum of the resolved set, else an
\* integer, or a bool for one bit
ReadAccessor(f, ev) ==
    [name |-> to_sanitized_snake_case(f.name),
     form |-> IF ev.tag = "Some" THEN "enum"
              ELSE IF f.bit_range.width = 1 THEN "bool" ELSE "int"]

\* variants.len() == 1 << field.bit_range.width, on usize (64 bits): no
\* list is as long as 2^31
all_variants_covered(f, ev) ==
    /\ f.bit_range.width < 31
    /\ Len(ev.evs.values) = Pow2(f.bit_range.width)

\* the setters of the write proxy: for a resolved set the sub-proxy, the
\* raw-bits setter (unsafe unless all variants are covered) and the enum
\* setter; else an integer setter, or a bool one for one bit
SetterForms(f, ev) ==
    IF ev.tag = "Some"
    THEN {"proxy", IF all_variants_covered(f, ev) THEN "bits" ELSE "unsafe bits",
          "enum"}
    ELSE {IF f.bit_range.width = 1 THEN "bool" ELSE "int"}

\* #name, {}_bits and {}_enum
SetterName(f, form) ==
    to_sanitized_snake_case(f.name) \o
        (IF form \in {"bits", "unsafe bits"} THEN <<"_", "b", "i", "t", "s">>
         ELSE IF form = "enum" THEN <<"_", "e", "n", "u", "m">>
         ELSE <<>>)

WriteSetters(f, ev) ==
    {[name |-> SetterName(f, form), form |-> form] : form \in SetterForms(f, ev)}

\* gen_register_r's items: the read proxy, the enums of its fields, and
\* the impl with the accessors
gen_register_r(r, flds, all) ==
    << [item |-> "struct", name |-> type_of(r) \o <<"R">>,
        bits_ty |-> unwrap(to_ty(unwrap(SizeOf(r))))] >> \o
    ReadLoop(r, flds, all, 1, {}) \o
    << [item |-> "impl", name |-> type_of(r) \o <<"R">>,
        methods |-> {},
        accessors |-> {ReadAccessor(flds[n], ReadEvalues(flds[n], flds, all)) :
                        n \in ReadableFields(flds)},
        calls |-> {}] >>

\* width.to_ty() of a field, and the .expect()s and the panic! of evalues
GenRegisterRPanics(r, flds, all) ==
    \E n \in ReadableFields(flds) :
        \/ to_ty(flds[n].bit_range.width) = None
        \/ ReadEvalues(flds[n], flds, all).tag = "Panic"

\* `1 << width` overflows for a field that gets an enum body
ShiftOverflows(r, flds, all) ==
    \E n \in ReadableFields(flds) :
        /\ ReadEvalues(flds[n], flds, all).tag = "Some"
        /\ ~ReadEvalues(flds[n], flds, all).derived
        /\ ShlOverflows(flds[n].bit_range.width)

\* the same, and .expect("no <value> node in <enumeratedValue>")
GenRegisterWPanics(r, flds, all) ==
    \E n \in WritableFields(flds) :
        \/ to_ty(flds[n].bit_range.width) = None
        \/ WriteEvalues(flds[n], flds, all).tag = "Panic"
        \/ \E m \in DOMAIN WriteEvalues(flds[n], flds, all).evs.values :
                WriteEvalues(flds[n], flds, all).evs.values[m].value = None

\* `pub fn reset_value() -> Self` exists only for a known reset value
Constructor(r) ==
    IF ResetOf(r) # None THEN {Method("reset_value", "constructor")} ELSE {}

\* gen_register_w's items: the write proxy, the sub-proxies and enums of
\* its fields, and the impl with the constructor and the setters
gen_register_w(r, flds, all) ==
    << [item |-> "struct", name |-> type_of(r) \o <<"W">>,
        bits_ty |-> unwrap(to_ty(unwrap(SizeOf(r))))] >> \o
    WriteLoop(r, flds, all, 1, {}) \o
    << [item |-> "impl", name |-> type_of(r) \o <<"W">>,
        methods |-> Constructor(r),
        accessors |-> UNION {WriteSetters(flds[n], WriteEvalues(flds[n], flds, all)) :
                              n \in WritableFields(flds)},
        calls |-> {}] >>

\* let access = access(&register);
Classify ==
    /\ pc = "registers"
    /\ k <= Len(registers)
    /\ acc' = Some(access(registers[k]))
    /\ pc' = "gen_register"
    /\ UNCHANGED <<registers, d, expanded, k, offset, i, fields, items>>
    /\ UNCHANGED apiVars

\* items.extend(gen_register(register, d));
GenRegister ==
    /\ pc = "gen_register"
    /\ ~GenRegisterPanics(registers[k])
    /\ items' = items \o gen_register(registers[k])
    /\ pc' = "gen_register_r"
    /\ UNCHANGED <<registers, d, expanded, k, offset, i, fields, acc>>
    /\ UNCHANGED apiVars

GenRegisterPanic ==
    /\ pc = "gen_register"
    /\ GenRegisterPanics(registers[k])
    /\ pc' = "panic"
    /\ UNCHANGED <<registers, d, expanded, k, offset, i, fields, items, acc>>
    /\ UNCHANGED apiVars

\* if access != Access::WriteOnly { gen_register_r(..) }, for Some(fields)
GenRegisterR ==
    /\ pc = "gen_register_r"
    /\ registers[k].fields # None
    /\ unwrap(acc) # "WriteOnly"
    /\ ~GenRegisterRPanics(registers[k], unwrap(registers[k].fields), registers)
    /\ items' = items \o gen_register_r(registers[k], unwrap(registers[k].fields),
                                        registers)
    /\ pc' = "gen_register_w"
    /\ UNCHANGED <<registers, d, expanded, k, offset, i, fields, acc>>
    /\ UNCHANGED apiVars

\* a field too wide, or a derived_from that names no set; or, in a build
\* with overflow checks, the shift of a 32-bit enumerated field
GenRegisterRPanic ==
    /\ pc = "gen_register_r"
    /\ registers[k].fields # None
    /\ unwrap(acc) # "WriteOnly"
    /\ \/ GenRegisterRPanics(registers[k], unwrap(registers[k].fields), registers)
       \/ ShiftOverflows(registers[k], unwrap(registers[k].fields), registers)
    /\ pc' = "panic"
    /\ UNCHANGED <<registers, d, expanded, k, offset, i, fields, items, acc>>
    /\ UNCHANGED apiVars

NoRegisterR ==
    /\ pc = "gen_register_r"
    /\ (registers[k].fields = None \/ unwrap(acc) = "WriteOnly")
    /\ pc' = "gen_register_w"
    /\ UNCHANGED <<registers, d, expanded, k, offset, i, fields, items, acc>>
    /\ UNCHANGED apiVars

\* if access != Access::ReadOnly { gen_register_w(..) }, for Some(fields)
GenRegisterW ==
    /\ pc = "gen_register_w"
    /\ registers[k].fields # None
    /\ unwrap(acc) # "ReadOnly"
    /\ ~GenRegisterWPanics(registers[k], unwrap(registers[k].fields), registers)
    /\ items' = items \o gen_register_w(registers[k], unwrap(registers[k].fields),
                                        registers)
    /\ k' = k + 1
    /\ pc' = "registers"
    /\ UNCHANGED <<registers, d, expanded, offset, i, fields, acc>>
    /\ UNCHANGED apiVars

\* a field too wide, a derived_from that names no set, a value missing
GenRegisterWPanic ==
    /\ pc = "gen_register_w"
    /\ registers[k].fields # None
    /\ unwrap(acc) # "ReadOnly"
    /\ GenRegisterWPanics(registers[k], unwrap(registers[k].fields), registers)
    /\ pc' = "panic"
    /\ UNCHANGED <<registers, d, expanded, k, offset, i, fields, items, acc>>
    /\ UNCHANGED apiVars

NoRegisterW ==
    /\ pc = "gen_register_w"
    /\ (registers[k].fields = None \/ unwrap(acc) = "ReadOnly")
    /\ k' = k + 1
    /\ pc' = "registers"
    /\ UNCHANGED <<registers, d, expanded, offset, i, fields, items, acc>>
    /\ UNCHANGED apiVars

\* the register loop is over: gen_peripheral returns its items
RegistersDone ==
    /\ pc = "registers"
    /\ k > Len(registers)
    /\ pc' = "done"
    /\ UNCHANGED <<registers, d, expanded, k, offset, i, fields, items, acc>>
    /\ UNCHANGED apiVars

NextReg ==
    \/ Classify \/ GenRegister \/ GenRegisterPanic
    \/ GenRegisterR \/ GenRegisterRPanic \/ NoRegisterR
    \/ GenRegisterW \/ GenRegisterWPanic \/ NoRegisterW
    \/ RegistersDone

(***************************************************************************)
(* The inputs of SpecReg: one register of every access mode, with and      *)
(* without fields, sizes and reset values; the register loop starts on it. *)
(***************************************************************************)
FieldAccess == {None, Some("ReadOnly"), Some("WriteOnly"), Some("ReadWrite")}

BitRange(off, width) == [offset |-> off, width |-> width]

Evs(name, derived_from, usage, values) ==
    [name |-> name, derived_from |-> derived_from, usage |-> usage,
     values |-> values]

\* a one-bit field A at bit 0, a two-bit field B at bit 1, and a field D
\* whose one set derives from a set G that nothing declares
RegFieldPool ==
    [name : {<<"A">>}, access : FieldAccess, bit_range : {BitRange(0, 1)},
     enumerated_values : {<<>>}]
    \cup
    [name : {<<"B">>}, access : FieldAccess, bit_range : {BitRange(1, 2)},
     enumerated_values : {<<>>}]
    \cup
    {[name |-> <<"D">>, access |-> None, bit_range |-> BitRange(4, 2),
      enumerated_values |-> <<Evs(None, Some(<<"G">>), None, <<>>)>>]}

RegPool ==
    [kind : {"Single"}, name : {Name_CR}, address_offset : {0},
     size : {None, Some(8)},
     access : {None} \cup {Some(a) : a \in Access},
     reset_value : {None, Some(1)},
     fields : {None} \cup {Some(f) : f \in SeqsUpTo(RegFieldPool, MaxFields)},
     dim : {0}, dim_increment : {0}, dim_index : {None}]

InitReg ==
    /\ registers \in {<<r>> : r \in RegPool}
    /\ d \in [size : {None, Some(32)}, reset_value : {None, Some(0)}]
    /\ pc = "registers"
    /\ expanded = <<>>
    /\ k = 1
    /\ offset = 0
    /\ i = 0
    /\ fields = <<>>
    /\ items = <<>>
    /\ acc = None
    /\ NoApi

SpecReg == InitReg /\ [][NextReg]_vars

(***************************************************************************)
(* The inputs of SpecEnum: a register A whose fields carry enumerated      *)
(* value sets, next to a register B that sets of A derive from; the        *)
(* register loop runs over both.                                           *)
(***************************************************************************)
Value(name, value) == [name |-> name, value |-> Some(value)]

\* an <enumeratedValue> without a <value> node
NoValue(name) == [name |-> name, value |-> None]

EnumField(name, width, sets) ==
    [name |-> name, access |-> None, bit_range |-> BitRange(0, width),
     enumerated_values |-> sets]

Name_G == Some(<<"G">>)

\* value lists: two of four codes, both codes of a bit, one code twice, a
\* code beyond the field, an entry without a value
VW12 == <<Value(<<"V">>, 1), Value(<<"W">>, 2)>>
VW01 == <<Value(<<"V">>, 0), Value(<<"W">>, 1)>>
VW00 == <<Value(<<"V">>, 0), Value(<<"W">>, 0)>>
VW15 == <<Value(<<"V">>, 1), Value(<<"W">>, 5)>>
VW1N == <<Value(<<"V">>, 1), NoValue(<<"W">>)>>

\* the fields register A is made of
EnumFieldPool ==
    { \* no set
      EnumField(<<"F">>, 2, <<>>),
      \* one set, of its own, with each usage
      EnumField(<<"F">>, 2, <<Evs(Name_G, None, None, VW12)>>),
      EnumField(<<"F">>, 2, <<Evs(None, None, Some("Read"), VW15)>>),
      EnumField(<<"F">>, 2, <<Evs(None, None, Some("Write"), VW12)>>),
      EnumField(<<"F">>, 1, <<Evs(None, None, None, VW01)>>),
      EnumField(<<"F">>, 1, <<Evs(None, None, Some("ReadWrite"), VW00)>>),
      EnumField(<<"F">>, 2, <<Evs(None, None, None, VW1N)>>),
      EnumField(<<"F">>, 32, <<Evs(None, None, None, VW01)>>),
      \* one set, derived: from B.G, from C.G, from G of this register
      EnumField(<<"F">>, 2, <<Evs(None, Some(<<"B", ".", "G">>), None, <<>>)>>),
      EnumField(<<"F">>, 2, <<Evs(None, Some(<<"C", ".", "G">>), None, <<>>)>>),
      EnumField(<<"F">>, 2, <<Evs(None, Some(<<"G">>), None, <<>>)>>),
      \* several sets
      EnumField(<<"F">>, 2, <<Evs(Some(<<"H">>), None, None, VW12),
                              Evs(Some(<<"S">>), None, Some("Write"), VW12)>>),
      EnumField(<<"F">>, 2, <<Evs(Some(<<"H">>), None, Some("Write"), VW12),
                              Evs(Some(<<"S">>), None, Some("Read"), VW12)>>),
      \* a second field, with a set G of its own or derived from B.G
      EnumField(<<"E">>, 2, <<Evs(Name_G, None, None, VW12)>>),
      EnumField(<<"E">>, 2, <<Evs(None, Some(<<"B", ".", "G">>), None, <<>>)>>) }

EnumReg(name, mode, flds) ==
    [kind |-> "Single", name |-> name, address_offset |-> 0, size |-> Some(32),
     access |-> mode, reset_value |-> Some(0), fields |-> flds,
     dim |-> 0, dim_increment |-> 0, dim_index |-> None]

\* the field, declared write-only
WriteOnlyField(f) == [f EXCEPT !.access = Some("WriteOnly")]

\* register B: a field G with a set G; a set G on a field H and no field
\* G; a field G whose set is S; a set G for writing only, and for reading
\* only; a write-only field G with a set G; no field list; an access mode
\* gen_register does not know
BaseRegs ==
    { EnumReg(<<"B">>, None, Some(<<EnumField(<<"G">>, 2, <<Evs(Name_G, None, None, VW12)>>)>>)),
      EnumReg(<<"B">>, None, Some(<<EnumField(<<"H">>, 2, <<Evs(Name_G, None, None, VW12)>>)>>)),
      EnumReg(<<"B">>, None, Some(<<EnumField(<<"G">>, 2, <<Evs(Some(<<"S">>), None, None, VW12)>>)>>)),
      EnumReg(<<"B">>, None, Some(<<EnumField(<<"G">>, 2, <<Evs(Name_G, None, Some("Write"), VW12)>>)>>)),
      EnumReg(<<"B">>, None, Some(<<EnumField(<<"G">>, 2, <<Evs(Name_G, None, Some("Read"), VW12)>>)>>)),
      EnumReg(<<"B">>, None, Some(<<WriteOnlyField(EnumField(<<"G">>, 2, <<Evs(Name_G, None, None, VW12)>>))>>)),
      EnumReg(<<"B">>, None, None),
      EnumReg(<<"B">>, Some("WriteOnce"), None) }

EnumRegs ==
    {EnumReg(<<"A">>, None, Some(f)) : f \in SeqsUpTo(EnumFieldPool, MaxFields)}

InitEnum ==
    /\ registers \in {<<a, b>> : a \in EnumRegs, b \in BaseRegs}
    /\ d = [size |-> None, reset_value |-> None]
    /\ pc = "registers"
    /\ expanded = <<>>
    /\ k = 1
    /\ offset = 0
    /\ i = 0
    /\ fields = <<>>
    /\ items = <<>>
    /\ acc = None
    /\ NoApi

SpecEnum == InitEnum /\ [][NextReg]_vars

(***************************************************************************)
(* The generated enums at work.                                            *)
(***************************************************************************)
\* fn from(value) of an emitted enum: the first arm of the value; None
\* where the match runs into unreachable!()
from(e, value) ==
    LET arms == {n \in DOMAIN e.variants : e.variants[n].value = value}
    IN  IF e.from /\ arms # {} THEN Some(e.variants[MinOf(arms)].name) ELSE None

\* fn bits(&self) of an emitted enum: the first arm of the variant; None
\* where the enum has no such variant
enum_bits(e, variant) ==
    LET arms == {n \in DOMAIN e.variants : e.variants[n].name = variant}
    IN  IF arms # {} THEN Some(e.variants[MinOf(arms)].value) ELSE None

(***************************************************************************)
(* The generated code at work: the register's storage, the proxies, and    *)
(* the closures handed to modify and write, which invoke field setters.    *)
(***************************************************************************)
\* bitwise operators on the naturals below 2^w
RECURSIVE BitAnd(_, _)
BitAnd(a, b) ==
    IF a = 0 \/ b = 0 THEN 0
    ELSE (a % 2) * (b % 2) + 2 * BitAnd(a \div 2, b \div 2)

RECURSIVE BitOr(_, _)
BitOr(a, b) ==
    IF a = 0 THEN b
    ELSE IF b = 0 THEN a
    ELSE (IF a % 2 = 1 \/ b % 2 = 1 THEN 1 ELSE 0) + 2 * BitOr(a \div 2, b \div 2)

BitNot(a, w) == Pow2(w) - 1 - a

Shl(a, n, w) == (a * Pow2(n)) % Pow2(w)

Shr(a, n) == a \div Pow2(n)

\* `x as T` for an unsigned T of w bits
Cast(a, w) == a % Pow2(w)

\* the register the generated code is for, and its pieces
ApiReg == registers[1]

ApiFields == unwrap(ApiReg.fields)

\* bits of #bits_ty, and of a field's #width_ty
BitsW == TyBits(unwrap(to_ty(unwrap(SizeOf(ApiReg)))))

WidthW(f) == TyBits(unwrap(to_ty(f.bit_range.width)))

\* const MASK: #width_ty = (1 << width) - 1
MASK(f) == Pow2(f.bit_range.width) - 1

OFFSET(f) == f.bit_range.offset

ItemsNamed(kind, name) ==
    {n \in DOMAIN items : items[n].item = kind /\ items[n].name = name}

ApiImpl == items[MinOf(ItemsNamed("impl", type_of(ApiReg)))]

\* every function the emitted methods call is itself emitted
Compiles ==
    "W::reset_value" \in ApiImpl.calls =>
        \E n \in ItemsNamed("impl", type_of(ApiReg) \o <<"W">>) :
            Method("reset_value", "constructor") \in items[n].methods

\* the setter of a field of the write proxy has this form
HasSetter(n, form) ==
    /\ n \in WritableFields(ApiFields)
    /\ form \in SetterForms(ApiFields[n],
                             WriteEvalues(ApiFields[n], ApiFields, registers))

\* self.bits |= 1 << OFFSET, or self.bits &= !(1 << OFFSET)
SetBool(bits, f, value) ==
    IF value THEN BitOr(bits, Shl(1, OFFSET(f), BitsW))
    ELSE BitAnd(bits, BitNot(Shl(1, OFFSET(f), BitsW), BitsW))

\* self.bits &= !(MASK as #bits_ty) << OFFSET: the mask is negated first and
\* shifted afterwards; then the value is or-ed in
SetInt(bits, f, value) ==
    BitOr(BitAnd(bits, Shl(BitNot(MASK(f), BitsW), OFFSET(f), BitsW)),
          Shl(BitAnd(value, MASK(f)), OFFSET(f), BitsW))

\* self.bits &= !((MASK as #bits_ty) << OFFSET), then the value is or-ed in:
\* the raw-bits setter, and the enum setter with value.bits()
SetBits(bits, f, value) ==
    BitOr(BitAnd(bits, BitNot(Shl(MASK(f), OFFSET(f), BitsW), BitsW)),
          Shl(BitAnd(value, MASK(f)), OFFSET(f), BitsW))

\* a method of the sub-proxy: the field cleared, #value << OFFSET or-ed in
SetVariant(bits, f, value) ==
    BitOr(BitAnd(bits, BitNot(Shl(MASK(f), OFFSET(f), BitsW), BitsW)),
          Shl(value, OFFSET(f), BitsW))

\* the accessors of the read proxy
GetBool(bits, f) == BitAnd(bits, Shl(1, OFFSET(f), BitsW)) # 0

GetInt(bits, f) == BitAnd(Cast(Shr(bits, OFFSET(f)), WidthW(f)), MASK(f))

\* #enum_ident::from(..): the arm of the code
GetEnum(bits, f, ev) == ReadVariant(ev.evs, GetInt(bits, f))

\* what the accessor of field n reports on a read proxy
ReadField(bits, n) ==
    LET f == ApiFields[n]
        ev == ReadEvalues(f, ApiFields, registers)
    IN  IF ev.tag = "Some" THEN [form |-> "enum", value |-> GetEnum(bits, f, ev).value,
                                 variant |-> GetEnum(bits, f, ev).name]
        ELSE IF f.bit_range.width = 1
             THEN [form |-> "bool", value |-> IF GetBool(bits, f) THEN 1 ELSE 0,
                   variant |-> <<>>]
             ELSE [form |-> "int", value |-> GetInt(bits, f), variant |-> <<>>]

\* a slip: modify's write proxy starts from the reset value
ModifySeedReset(bits, r) == unwrap(ResetOf(r))

\* let mut w = #name_w { bits: bits };
ModifySeed(bits, r) == bits

\* a slip: write's write proxy starts from zero
WriteSeedZero(r) == 0

\* let mut w = #name_w::reset_value();
WriteSeed(r) == unwrap(ResetOf(r))

\* an operation that returned, and whether its closure invoked no setter
\* (`after`: for a read, the operation that returned before it)
Completed(op, flds) ==
    [op |-> op, identity |-> flds = {}, after |-> <<"none", FALSE>>]

\* values the closures pass to the integer and raw-bits setters
SetterValues == {0, 7}

\* read(): one volatile read, returned raw or as a read proxy
Read ==
    /\ pc = "idle"
    /\ calls < MaxCalls
    /\ Compiles
    /\ \E m \in ApiImpl.methods : m.name = "read"
    /\ rbits' = hw
    /\ log' = <<"read">>
    /\ last' = [op |-> "read", identity |-> FALSE,
                after |-> <<last.op, last.identity>>]
    /\ calls' = calls + 1
    /\ UNCHANGED <<registers, d, pc, hw, wbits, touched>>
    /\ UNCHANGED genVars

\* modify(f), up to the call of f
ModifyBegin ==
    /\ pc = "idle"
    /\ calls < MaxCalls
    /\ Compiles
    /\ Method("modify", "proxies") \in ApiImpl.methods
    /\ log' = <<"read">>
    /\ rbits' = hw
    /\ wbits' = ModifySeed(hw, ApiReg)
    /\ touched' = {}
    /\ last' = NoCall
    /\ pc' = "modify_f"
    /\ UNCHANGED <<registers, d, hw, calls>>
    /\ UNCHANGED genVars

\* write(f), up to the call of f
WriteBegin ==
    /\ pc = "idle"
    /\ calls < MaxCalls
    /\ Compiles
    /\ Method("write", "builder") \in ApiImpl.methods
    /\ log' = <<>>
    /\ rbits' = 0
    /\ wbits' = WriteSeed(ApiReg)
    /\ touched' = {}
    /\ last' = NoCall
    /\ pc' = "write_f"
    /\ UNCHANGED <<registers, d, hw, calls>>
    /\ UNCHANGED genVars

\* the closure may invoke a setter of field n
MaySet(n) ==
    /\ pc \in {"modify_f", "write_f"}
    /\ Cardinality(touched \cup {n}) <= MaxSetters

Set(n, bits) ==
    /\ wbits' = bits
    /\ touched' = touched \cup {n}
    /\ UNCHANGED <<registers, d, pc, hw, rbits, log, last, calls>>
    /\ UNCHANGED genVars

FieldBool ==
    \E n \in DOMAIN ApiFields : \E value \in BOOLEAN :
        /\ MaySet(n)
        /\ HasSetter(n, "bool")
        /\ Set(n, SetBool(wbits, ApiFields[n], value))

FieldInt ==
    \E n \in DOMAIN ApiFields : \E value \in SetterValues :
        /\ MaySet(n)
        /\ HasSetter(n, "int")
        /\ Set(n, SetInt(wbits, ApiFields[n], value))

FieldBits ==
    \E n \in DOMAIN ApiFields : \E value \in SetterValues :
        /\ MaySet(n)
        /\ (HasSetter(n, "bits") \/ HasSetter(n, "unsafe bits"))
        /\ Set(n, SetBits(wbits, ApiFields[n], value))

\* the values of the set the write view of field n resolves to
WriteValues(n) == WriteEvalues(ApiFields[n], ApiFields, registers).evs.values

FieldEnum ==
    \E n \in DOMAIN ApiFields :
        /\ MaySet(n)
        /\ HasSetter(n, "enum")
        /\ \E m \in DOMAIN WriteValues(n) :
              Set(n, SetBits(wbits, ApiFields[n], unwrap(WriteValues(n)[m].value)))

FieldVariant ==
    \E n \in DOMAIN ApiFields :
        /\ MaySet(n)
        /\ HasSetter(n, "proxy")
        /\ \E m \in DOMAIN WriteValues(n) :
              Set(n, SetVariant(wbits, ApiFields[n], unwrap(WriteValues(n)[m].value)))

\* self.register.write(w.bits), and the return of modify
ModifyCommit ==
    /\ pc = "modify_f"
    /\ hw' = wbits
    /\ log' = Append(log, "write")
    /\ last' = Completed("modify", touched)
    /\ calls' = calls + 1
    /\ rbits' = 0
    /\ touched' = {}
    /\ pc' = "idle"
    /\ UNCHANGED <<registers, d, wbits>>
    /\ UNCHANGED genVars

\* self.register.write(w.bits), and the return of write
WriteCommit ==
    /\ pc = "write_f"
    /\ hw' = wbits
    /\ log' = Append(log, "write")
    /\ last' = Completed("write", touched)
    /\ calls' = calls + 1
    /\ touched' = {}
    /\ pc' = "idle"
    /\ UNCHANGED <<registers, d, rbits, wbits>>
    /\ UNCHANGED genVars

NextApi ==
    \/ Read \/ ModifyBegin \/ WriteBegin
    \/ FieldBool \/ FieldInt \/ FieldBits \/ FieldEnum \/ FieldVariant
    \/ ModifyCommit \/ WriteCommit

(***************************************************************************)
(* The inputs of SpecApi: registers of 8 bits with plain and enumerated     *)
(* fields, and what gen_peripheral emits for them.                         *)
(***************************************************************************)
ApiField(name, mode, off, width, sets) ==
    [name |-> name, access |-> mode, bit_range |-> BitRange(off, width),
     enumerated_values |-> sets]

TwoOfFour == <<Evs(None, None, None, <<Value(<<"G">>, 1), Value(<<"H">>, 2)>>)>>

BothOfTwo == <<Evs(None, None, None, <<Value(<<"G">>, 0), Value(<<"H">>, 1)>>)>>

\* a bit, an integer at bit 1 and an enumerated field with two of its four
\* codes named; an integer at bit 0 and an enumerated bit with both codes
\* named; a read-only bit and a write-only integer
ApiFieldLists ==
    {<<ApiField(<<"A">>, None, 0, 1, <<>>),
       ApiField(<<"B">>, None, 1, 2, <<>>),
       ApiField(<<"E">>, None, 4, 2, TwoOfFour)>>,
     <<ApiField(<<"C">>, None, 0, 2, <<>>),
       ApiField(<<"F">>, None, 3, 1, BothOfTwo)>>,
     <<ApiField(<<"A">>, Some("ReadOnly"), 0, 1, <<>>),
       ApiField(<<"B">>, Some("WriteOnly"), 1, 2, <<>>)>>}

ApiPool ==
    [kind : {"Single"}, name : {Name_CR}, address_offset : {0},
     size : {Some(8)},
     access : {Some("ReadOnly"), Some("ReadWrite"), Some("WriteOnly")},
     reset_value : {None, Some(165)},
     fields : {Some(f) : f \in ApiFieldLists},
     dim : {0}, dim_increment : {0}, dim_index : {None}]

\* what the register held before the first operation
HwValues == {90, 255}

\* the three calls of gen_peripheral's register loop
Emitted(r, dd) ==
    LET a == access(r) IN
    gen_register(r) \o
    (IF a # "WriteOnly" THEN gen_register_r(r, unwrap(r.fields), <<r>>) ELSE <<>>) \o
    (IF a # "ReadOnly" THEN gen_register_w(r, unwrap(r.fields), <<r>>) ELSE <<>>)

InitApi ==
    /\ registers \in {<<r>> : r \in ApiPool}
    /\ d \in [size : {None}, reset_value : {None, Some(0)}]
    /\ pc = "idle"
    /\ expanded = <<>>
    /\ k = 2
    /\ offset = 0
    /\ i = 0
    /\ fields = <<>>
    /\ items = Emitted(registers[1], d)
    /\ acc = Some(access(registers[1]))
    /\ hw \in HwValues
    /\ rbits = 0
    /\ wbits = 0
    /\ log = <<>>
    /\ touched = {}
    /\ last = NoCall
    /\ calls = 0

SpecApi == InitApi /\ [][NextApi]_vars

(***************************************************************************)
(* Claims about expand() and the layout loop, checked under Spec.          *)
(***************************************************************************)
\* the struct emitted by gen_peripheral, once the layout loop is over
Layout == items[1].fields

IsReg(e) == e.kind = "reg"

\* a register's bit size, declared or default, in bytes
BytesOfPos(p) == unwrap(SizeOr(registers[expanded[p].info])) \div 8

ElementBytes(e) == IF IsReg(e) THEN BytesOfPos(e.pos) ELSE e.bytes

RECURSIVE SumBytes(_)
SumBytes(s) == IF s = <<>> THEN 0 ELSE ElementBytes(Head(s)) + SumBytes(Tail(s))

\* positions in `expanded` of the registers a layout retains
RetainedIn(s) == {s[n].pos : n \in {m \in DOMAIN s : IsReg(s[m])}}

MaxOf(S) == IF S = {} THEN 0 ELSE CHOOSE x \in S : \A y \in S : y <= x

HighestEnd(s) == MaxOf({expanded[p].offset + BytesOfPos(p) : p \in RetainedIn(s)})

\* C1: once the layout is emitted, the byte sizes of its elements (padding
\* as its gap, a retained register as its bit size in bytes) add up to the
\* highest offset + size among the retained registers.
C1_LayoutSum ==
    pc = "registers" => SumBytes(Layout) = HighestEnd(Layout)

\* C1's case: a layout with padding, two retained registers and a dropped one
C1_Witness ==
    /\ pc = "registers"
    /\ \E n \in DOMAIN Layout : ~IsReg(Layout[n])
    /\ Cardinality(RetainedIn(Layout)) >= 2
    /\ Cardinality(RetainedIn(Layout)) < Len(expanded)

\* the loop stands at a register whose offset is below the cursor
AtOverlap ==
    pc = "layout" /\ k <= Len(expanded) /\ expanded[k].offset < offset

\* C2, first half: a register below the cursor adds no layout element and
\* leaves the cursor and the padding counter alone; the loop goes on to the
\* next register.
C2_OverlapFrame ==
    [][AtOverlap =>
        /\ fields' = fields /\ offset' = offset /\ i' = i
        /\ k' = k + 1 /\ pc' = "layout"]_vars

\* C2, second half: of two registers at one offset, the first of which is
\* kept, the second is absent from the layout, and the cursor behind the
\* second is still the first one's end.
C2_SecondAbsent ==
    \A a \in DOMAIN expanded : \A b \in DOMAIN expanded :
        (/\ pc \in {"layout", "registers"}
         /\ a < b /\ b < k
         /\ expanded[a].offset = expanded[b].offset
         /\ a \in RetainedIn(fields))
        => /\ b \notin RetainedIn(fields)
           /\ (b = a + 1 /\ k = b + 1 /\ pc = "layout")
                => offset = expanded[a].offset + BytesOfPos(a)

\* C2: the Layout Builder drops a register whose offset is below the cursor
\* without touching the layout, the cursor or the padding counter, and so,
\* of two registers declared at the same offset, keeps the first and leaves
\* the second out, advancing from the first one's end.
C2_OverlapDropped == C2_OverlapFrame /\ []C2_SecondAbsent

\* positions in `expanded` of the instances of the n-th declared register
InstancesOf(n) == {p \in DOMAIN expanded : expanded[p].info = n}

\* the placeholder of an array's name, and where it stands
PlaceholderOf(name) ==
    IF \E a \in 0..(Len(name) - 4) : SubSeq(name, a + 1, a + 4) = Brackets
    THEN Brackets ELSE Percent

SplitAt(name) ==
    LET ph == PlaceholderOf(name)
    IN  CHOOSE a \in 0..(Len(name) - Len(ph)) :
            SubSeq(name, a + 1, a + Len(ph)) = ph

Substituted(name, label) ==
    LET ph == PlaceholderOf(name)
        a == SplitAt(name)
    IN  SubSeq(name, 1, a) \o label
            \o SubSeq(name, a + Len(ph) + 1, Len(name))

\* the labels of an array: the explicit list, else "0" .. "count-1"
LabelsOf(r) ==
    IF r.dim_index # None THEN unwrap(r.dim_index)
    ELSE [j \in 1..r.dim |-> <<Digits[j]>>]

InstanceView(p) ==
    <<expanded[p].name, expanded[p].offset, expanded[p].ty.name>>

\* C3: an array with K labels expands to exactly K instances; the one at
\* positional index j has offset base + j * increment and the sanitized name
\* with label j substituted for the placeholder; all share the one type name
\* with the placeholder removed. CH[%s] x 4 from 0x10 by 4 gives ch0..ch3 at
\* 0x10, 0x14, 0x18, 0x1c, all of type Ch.
C3_ArrayExpansion ==
    pc # "start" =>
      \A n \in DOMAIN registers :
        registers[n].kind = "Array" =>
          LET r == registers[n]
              labels == LabelsOf(r)
              tyname == to_sanitized_pascal_case(Substituted(r.name, <<>>))
          IN  /\ Cardinality(InstancesOf(n)) = Len(labels)
              /\ \A j \in DOMAIN labels :
                    \E p \in InstancesOf(n) :
                        /\ expanded[p].offset =
                              r.address_offset + (j - 1) * r.dim_increment
                        /\ expanded[p].name =
                              to_sanitized_snake_case(Substituted(r.name, labels[j]))
                        /\ expanded[p].ty = [tag |-> "Right", name |-> tyname]
              /\ r = ExampleArray =>
                    {InstanceView(p) : p \in InstancesOf(n)} =
                        {<<<<"c", "h", "0">>, 16, <<"C", "h">>>>,
                         <<<<"c", "h", "1">>, 20, <<"C", "h">>>>,
                         <<<<"c", "h", "2">>, 24, <<"C", "h">>>>,
                         <<<<"c", "h", "3">>, 28, <<"C", "h">>>>}

\* C3's case: an array with explicit, non-numeric labels, more labels than
\* its count, expanded next to the README's array
C3_Witness ==
    /\ pc = "layout"
    /\ \E n \in DOMAIN registers :
          /\ registers[n].kind = "Array"
          /\ registers[n].dim_index # None
          /\ Cardinality(InstancesOf(n)) = 3
    /\ \E n \in DOMAIN registers : registers[n] = ExampleArray

(***************************************************************************)
(* Claims about access() and gen_register(), checked under SpecReg.        *)
(***************************************************************************)
\* gen_peripheral holds the access mode of registers[k]
Classified ==
    /\ acc # None
    /\ pc \in {"gen_register", "gen_register_r", "gen_register_w", "panic"}

\* the items of registers[k] that gen_register has emitted
Generated == acc # None /\ pc \in {"gen_register_r", "gen_register_w"}

\* the access modes the fields of a register declare
FieldModes(r) == {unwrap(r.fields)[n].access : n \in DOMAIN unwrap(r.fields)}

WithFields(r) == r.fields # None /\ unwrap(r.fields) # <<>>

\* C4: the classifier returns the explicit access mode when there is one;
\* else, for a register with fields, ReadOnly when every field is explicitly
\* ReadOnly, WriteOnly when every field is explicitly WriteOnly, ReadWrite
\* for anything else (mixed modes, or a field with no mode).
C4_AccessClassifier ==
    Classified =>
        LET r == registers[k]
        IN  /\ r.access # None => acc = r.access
            /\ (r.access = None /\ WithFields(r)) =>
                  /\ FieldModes(r) = {Some("ReadOnly")} => acc = Some("ReadOnly")
                  /\ FieldModes(r) = {Some("WriteOnly")} => acc = Some("WriteOnly")
                  /\ FieldModes(r) \notin {{Some("ReadOnly")}, {Some("WriteOnly")}}
                        => acc = Some("ReadWrite")

\* C4's case: no explicit mode, fields [ReadOnly, WriteOnly], classified
C4_Witness ==
    /\ Classified
    /\ registers[k].access = None
    /\ registers[k].fields # None
    /\ Len(unwrap(registers[k].fields)) = 2
    /\ unwrap(registers[k].fields)[1].access = Some("ReadOnly")
    /\ unwrap(registers[k].fields)[2].access = Some("WriteOnly")
    /\ acc = Some("ReadWrite")

\* the `impl` gen_register emitted for registers[k]
RegisterImpl ==
    LET n == CHOOSE n \in DOMAIN items :
                items[n].item = "impl" /\ items[n].name = type_of(registers[k])
    IN  items[n]

RegisterStruct ==
    LET n == CHOOSE n \in DOMAIN items :
                items[n].item = "struct" /\ items[n].name = type_of(registers[k])
    IN  items[n]

WritesStorage(m) == m.name \in {"write", "write_bits", "modify", "modify_bits"}

ReadsStorage(m) == m.name \in {"read", "read_bits", "modify", "modify_bits"}

\* the table of operations by access mode and presence of fields
OperationTable(a, has_fields) ==
    CASE a = "ReadOnly" /\ ~has_fields -> {<<"read", "raw">>}
      [] a = "ReadOnly" /\ has_fields ->
            {<<"read", "proxy">>, <<"read_bits", "raw">>}
      [] a = "WriteOnly" /\ ~has_fields -> {<<"write", "value">>}
      [] a = "WriteOnly" /\ has_fields ->
            {<<"write", "builder">>, <<"write_bits", "raw">>}
      [] a = "ReadWrite" /\ ~has_fields ->
            {<<"read", "raw">>, <<"write", "value">>}
      [] a = "ReadWrite" /\ has_fields ->
            {<<"read", "proxy">>, <<"write", "builder">>,
             <<"modify", "proxies">>, <<"read_bits", "raw">>,
             <<"write_bits", "raw">>, <<"modify_bits", "raw">>}

C6_ReadModifyWrite ==
    Generated =>
        LET names == {m.name : m \in RegisterImpl.methods}
                        \cap {"read", "modify", "write"}
        IN  /\ acc = Some("ReadWrite") => names = {"read", "modify", "write"}
            /\ acc = Some("ReadOnly") => names = {"read"}
            /\ acc = Some("WriteOnly") => names = {"write"}

\* the impl of the write proxy of the first register, once emitted
WriteProxyMethods ==
    UNION {items[n].methods :
            n \in {m \in DOMAIN items :
                    /\ items[m].item = "impl"
                    /\ items[m].name = type_of(registers[1]) \o <<"W">>}}

\* C9: for a register with fields the builder-form write is generated only
\* when a reset value is resolvable (the register's, else the default), so
\* that no generated operation calls a reset_value constructor that is not
\* generated.
C9_BuilderNeedsReset ==
    (pc = "done" /\ registers[1].fields # None) =>
        LET r == registers[1]
            n == CHOOSE n \in DOMAIN items :
                    items[n].item = "impl" /\ items[n].name = type_of(r)
            resolvable == r.reset_value # None \/ d.reset_value # None
        IN  /\ Method("write", "builder") \in items[n].methods => resolvable
            /\ "W::reset_value" \in items[n].calls =>
                  Method("reset_value", "constructor") \in WriteProxyMethods

(***************************************************************************)
(* Claims about the generated read, modify and write, checked under        *)
(* SpecApi.                                                                *)
(***************************************************************************)
\* the reset value of the register: its own, else the peripheral default
KnownReset ==
    IF ApiReg.reset_value # None THEN unwrap(ApiReg.reset_value)
    ELSE unwrap(d.reset_value)

\* modify is running its closure: one read so far, both proxies hold what
\* was read, which is what the storage still holds
InClosure ==
    pc = "modify_f" =>
        /\ log = <<"read">>
        /\ rbits = hw
        /\ touched = {} => wbits = hw

\* the setters of the closure make no volatile access
SetterStep ==
    (pc = "modify_f" /\ pc' = "modify_f") =>
        /\ log' = log /\ hw' = hw /\ rbits' = rbits

\* modify returns: the one write, of the write proxy's bits
CommitStep ==
    (pc = "modify_f" /\ pc' = "idle") =>
        /\ log' = <<"read", "write">>
        /\ hw' = wbits

\* C7: one modify(f) makes exactly one read and then exactly one write of
\* the storage, however many setters f invokes; f gets a read proxy with the
\* bits read and a write proxy seeded with the same bits, not the reset
\* value; what is written is the write proxy's bits after f.
C7_ModifyOnce == []InClosure /\ [][SetterStep /\ CommitStep]_vars

\* C7's case: a modify whose closure invoked setters has returned, on a
\* register whose reset value is not what it held
C7_Witness ==
    /\ pc = "idle"
    /\ last.op = "modify" /\ ~last.identity
    /\ log = <<"read", "write">>
    /\ calls = 1
    /\ hw # KnownReset

Bit(x, b) == (x \div Pow2(b)) % 2

\* the bits of the fields whose setters the closure has invoked
TouchedBits ==
    UNION {{b \in 0..(BitsW - 1) :
                /\ b >= ApiFields[n].bit_range.offset
                /\ b < ApiFields[n].bit_range.offset + ApiFields[n].bit_range.width}
           : n \in touched}

\* C8: after modify(f), whatever setters f invoked, every bit outside the
\* ranges of the fields whose setters were invoked has its value of before.
C8_UntouchedBitsKept ==
    [][(pc = "modify_f" /\ pc' = "idle") =>
          \A b \in 0..(BitsW - 1) :
              b \notin TouchedBits => Bit(hw', b) = Bit(hw, b)]_vars

\* the bits of a field in a bit pattern
FieldOf(bits, f) == (bits \div Pow2(f.bit_range.offset)) % Pow2(f.bit_range.width)

ReadEmitted(rr) ==
    /\ rr \in DOMAIN registers
    /\ rr < k \/ (rr = k /\ pc = "gen_register_w")
    /\ registers[rr].fields # None
    /\ access(registers[rr]) # "WriteOnly"

\* gen_register_w has run for register rr, and its items are emitted
WriteEmitted(rr) ==
    /\ rr \in DOMAIN registers
    /\ rr < k
    /\ registers[rr].fields # None
    /\ access(registers[rr]) # "ReadOnly"

FieldsOf(rr) == unwrap(registers[rr].fields)

ReadSetOf(rr, n) == ReadEvalues(FieldsOf(rr)[n], FieldsOf(rr), registers)

WriteSetOf(rr, n) == WriteEvalues(FieldsOf(rr)[n], FieldsOf(rr), registers)

\* the fields of rr whose read view has an enum body of its own
ReadEnumFields(rr) ==
    {n \in ReadableFields(FieldsOf(rr)) :
        ReadSetOf(rr, n).tag = "Some" /\ ~ReadSetOf(rr, n).derived}

\* the emitted enums of this name, with or without from(), that the
\* iteration of field f emitted
EnumsNamed(name, decoding, f) ==
    {items[n] : n \in {m \in DOMAIN items :
                        /\ items[m].item = "enum"
                        /\ items[m].name = name
                        /\ items[m].from = decoding
                        /\ items[m].of = f}}

ReadEnumsOf(rr, n) ==
    EnumsNamed(ReadEnumName(registers[rr], FieldsOf(rr)[n], ReadSetOf(rr, n)),
               TRUE, FieldsOf(rr)[n])

\* the codes of a field of width w, the first 2^MaxCodeBits of them
Codes(w) == 0..(Pow2(IF w < MaxCodeBits THEN w ELSE MaxCodeBits) - 1)

\* the entries of a value list that declare code c
Declaring(evs, c) == {m \in DOMAIN evs.values : evs.values[m].value = Some(c)}

VariantName(evs, m) == to_sanitized_pascal_case(evs.values[m].name)

\* the variant from() gives for a code is a hidden one
Hidden(e, c) ==
    \E n \in DOMAIN e.variants :
        e.variants[n].name = unwrap(from(e, c)) /\ e.variants[n].reserved

\* from() of e, an enum for the set evs on a field of width w, is total,
\* names the declared codes and gives each other code a variant of its own
TotalDecoding(e, evs, w) ==
    \A c \in Codes(w) :
        /\ from(e, c) # None
        /\ Declaring(evs, c) # {} =>
              \E m \in Declaring(evs, c) : from(e, c) = Some(VariantName(evs, m))
        /\ Declaring(evs, c) = {} =>
              /\ Hidden(e, c)
              /\ \A m \in DOMAIN evs.values : from(e, c) # Some(VariantName(evs, m))
              /\ \A c2 \in Codes(w) : c2 # c => from(e, c2) # from(e, c)

\* C11: the read-view enum generated for a field of width w decodes every
\* code of [0, 2^w): a declared code to its symbolic name, every other code
\* to a hidden reserved variant that no other code and no declared entry has.
C11_ReadEnumTotal ==
    \A rr \in DOMAIN registers :
        ReadEmitted(rr) =>
            \A n \in ReadEnumFields(rr) :
                /\ ReadEnumsOf(rr, n) # {}
                /\ \A e \in ReadEnumsOf(rr, n) :
                      TotalDecoding(e, ReadSetOf(rr, n).evs,
                                    FieldsOf(rr)[n].bit_range.width)

\* from(bits(v)) is v
RoundTrip(e, v) ==
    /\ enum_bits(e, v) # None
    /\ from(e, unwrap(enum_bits(e, v))) = Some(v)

FirstOfCode(evs, w) ==
    {m \in DOMAIN evs.values :
        /\ evs.values[m].value # None
        /\ unwrap(evs.values[m].value) < Shl1(w)
        /\ \A m2 \in DOMAIN evs.values :
              evs.values[m2].value = evs.values[m].value => m <= m2}

WriteImpl(rr) ==
    items[MinOf(ItemsNamed("impl", type_of(registers[rr]) \o <<"W">>))]

\* no other field of rr has the name of field n
UniqueName(rr, n) ==
    \A n2 \in DOMAIN FieldsOf(rr) :
        FieldsOf(rr)[n2].name = FieldsOf(rr)[n].name => n2 = n

\* the fields of rr whose write view resolves to a set
WriteEnumFields(rr) ==
    {n \in WritableFields(FieldsOf(rr)) : WriteSetOf(rr, n).tag = "Some"}

\* every code of a field of width w has an entry in evs
Covered(evs, w) == \A c \in Codes(w) : Declaring(evs, c) # {}

\* the raw-bits setters of field n in the write proxy of rr
RawBitsSetters(rr, n) ==
    {a \in WriteImpl(rr).accessors :
        /\ a.name = SetterName(FieldsOf(rr)[n], "bits")
        /\ a.form \in {"bits", "unsafe bits"}}

\* C13: for a field whose write view resolves to an enumerated set, the
\* raw-bits setter is the safe one only if every one of the 2^width codes
\* has a named variant in the set, and the unsafe one in every other case,
\* also when entries repeat a code or carry a code beyond the field.
C13_RawBitsSafety ==
    \A rr \in DOMAIN registers :
        WriteEmitted(rr) =>
            \A n \in WriteEnumFields(rr) :
                UniqueName(rr, n) =>
                    /\ RawBitsSetters(rr, n) # {}
                    /\ \A a \in RawBitsSetters(rr, n) :
                          a.form = "bits" <=>
                              Covered(WriteSetOf(rr, n).evs,
                                      FieldsOf(rr)[n].bit_range.width)

(***************************************************************************)
(* More claims about expand() and the layout loop, checked under Spec.     *)
(***************************************************************************)
\* expand() has run
Expanded == pc \in {"layout", "registers"}

\* one more register has been processed by the layout loop
Processes == pc = "layout" /\ pc' = "layout" /\ k' # k

\* the loop takes the registers one by one in the order of `expanded`, and
\* the cursor starts at 0 and never decreases
InOrderMonotone ==
    /\ [](pc = "start" => offset = 0)
    /\ [][(Processes => k' = k + 1) /\ offset' >= offset]_vars

\* C14 as stated: the registers are processed in strictly ascending offset
\* order, each offset greater than the one before, and the cursor starts
\* at 0 and never decreases.
C14_StrictlyAscending ==
    /\ InOrderMonotone
    /\ [](Expanded =>
            \A a \in DOMAIN expanded : \A b \in DOMAIN expanded :
                a < b => expanded[a].offset < expanded[b].offset)

\* C14, amended: the registers are processed in ascending offset order in
\* which equal offsets are allowed, registers of one offset coming in the
\* order of their declaration, and the cursor starts at 0 and never
\* decreases.
C14_AscendingOrder ==
    /\ InOrderMonotone
    /\ [](Expanded =>
            \A a \in DOMAIN expanded : \A b \in DOMAIN expanded :
                a < b =>
                    /\ expanded[a].offset <= expanded[b].offset
                    /\ expanded[a].offset = expanded[b].offset
                          => expanded[a].info <= expanded[b].info)

\* C14's case: the loop is past two registers of one offset, the sort has
\* moved an instance behind one declared later, and the cursor has moved
C14_Witness ==
    /\ pc = "layout"
    /\ offset > 0
    /\ \E a \in DOMAIN expanded : \E b \in DOMAIN expanded :
          /\ a < b /\ b < k
          /\ expanded[a].offset = expanded[b].offset
    /\ \E a \in DOMAIN expanded : \E b \in DOMAIN expanded :
          a < b /\ expanded[a].info > expanded[b].info

(***************************************************************************)
(* Claims about the resolution of the enumerated sets, checked under       *)
(* SpecEnum.                                                               *)
(***************************************************************************)
\* the accessor of field n in the read proxy of rr returns an enum
ReadsEnum(rr, n) ==
    \E e \in ItemsNamed("impl", type_of(registers[rr]) \o <<"R">>) :
        [name |-> to_sanitized_snake_case(FieldsOf(rr)[n].name), form |-> "enum"]
            \in items[e].accessors

\* the write proxy of rr has the enum setter of field n
WritesEnum(rr, n) ==
    \E a \in WriteImpl(rr).accessors :
        a.name = SetterName(FieldsOf(rr)[n], "enum") /\ a.form = "enum"

\* C15: the read view of a field never resolves to a set whose usage is
\* Write, and the write view never to a set whose usage is Read, whether
\* the field declares one set, derived or not, or several.
C15_ViewEligibility ==
    \A rr \in DOMAIN registers :
        /\ ReadEmitted(rr) =>
              \A n \in ReadableFields(FieldsOf(rr)) :
                  (ReadSetOf(rr, n).tag = "Some" /\ ReadsEnum(rr, n))
                      => ReadSetOf(rr, n).evs.usage # Some("Write")
        /\ WriteEmitted(rr) =>
              \A n \in WritableFields(FieldsOf(rr)) :
                  (WriteSetOf(rr, n).tag = "Some" /\ WritesEnum(rr, n))
                      => WriteSetOf(rr, n).evs.usage # Some("Read")

\* the sets of f that are eligible for the view that `excluded` is not for
Eligible(f, excluded) ==
    {m \in DOMAIN f.enumerated_values :
        f.enumerated_values[m].usage # Some(excluded)}

\* the first eligible set of f is an untagged one with values of its own
UntaggedFirst(f, excluded) ==
    /\ Eligible(f, excluded) # {}
    /\ f.enumerated_values[MinOf(Eligible(f, excluded))].usage = None
    /\ f.enumerated_values[MinOf(Eligible(f, excluded))].derived_from = None

\* C16: a set without a usage tag is eligible for both views: where the
\* first eligible set of a field, of several or the only one, is untagged,
\* the view resolves to that set and does not fall back to the plain
\* integer or boolean accessor.
C16_UntaggedEligible ==
    \A rr \in DOMAIN registers :
        /\ ReadEmitted(rr) =>
              \A n \in ReadableFields(FieldsOf(rr)) :
                  (UniqueName(rr, n) /\ UntaggedFirst(FieldsOf(rr)[n], "Write")) =>
                      /\ ReadsEnum(rr, n)
                      /\ ReadSetOf(rr, n).evs =
                            FieldsOf(rr)[n].enumerated_values[
                                MinOf(Eligible(FieldsOf(rr)[n], "Write"))]
        /\ WriteEmitted(rr) =>
              \A n \in WritableFields(FieldsOf(rr)) :
                  (UniqueName(rr, n) /\ UntaggedFirst(FieldsOf(rr)[n], "Read")) =>
                      /\ WritesEnum(rr, n)
                      /\ WriteSetOf(rr, n).evs =
                            FieldsOf(rr)[n].enumerated_values[
                                MinOf(Eligible(FieldsOf(rr)[n], "Read"))]

\* the one set of f carries a qualified derivation reference "R.F"
QualifiedRef(f) ==
    /\ Len(f.enumerated_values) = 1
    /\ f.enumerated_values[1].derived_from # None
    /\ Contains(unwrap(f.enumerated_values[1].derived_from), <<".">>)

RefParts(f) == SplitDot(unwrap(f.enumerated_values[1].derived_from))

\* evs is a set declared on field F of register R, named as the reference
\* says and eligible for the view that `excluded` is not for
OnReferencedField(f, evs, excluded) ==
    \E b \in DOMAIN registers :
        /\ registers[b].name = RefParts(f)[1]
        /\ registers[b].fields # None
        /\ \E g \in DOMAIN FieldsOf(b) :
              /\ FieldsOf(b)[g].name = RefParts(f)[2]
              /\ \E m \in DOMAIN FieldsOf(b)[g].enumerated_values :
                    /\ FieldsOf(b)[g].enumerated_values[m] = evs
                    /\ evs.name = Some(RefParts(f)[2])
                    /\ evs.usage # Some(excluded)

\* C17: where a proxy is generated for a register with a field whose set
\* derives from "R.F", the set resolved for the view is one declared on
\* field F of register R, named as referenced and eligible for the view;
\* with R absent, F absent on R or no such set on F, generation has
\* aborted and no proxy is generated.
C17_QualifiedReference ==
    \A rr \in DOMAIN registers :
        /\ ReadEmitted(rr) =>
              \A n \in ReadableFields(FieldsOf(rr)) :
                  QualifiedRef(FieldsOf(rr)[n]) =>
                      /\ ReadSetOf(rr, n).tag = "Some"
                      /\ OnReferencedField(FieldsOf(rr)[n], ReadSetOf(rr, n).evs, "Write")
        /\ WriteEmitted(rr) =>
              \A n \in WritableFields(FieldsOf(rr)) :
                  QualifiedRef(FieldsOf(rr)[n]) =>
                      /\ WriteSetOf(rr, n).tag = "Some"
                      /\ OnReferencedField(FieldsOf(rr)[n], WriteSetOf(rr, n).evs, "Read")

\* the fields of every register have names of their own
DistinctFields ==
    \A rr \in DOMAIN registers :
        registers[rr].fields # None =>
            \A n \in DOMAIN FieldsOf(rr) : UniqueName(rr, n)

\* the emitted enum bodies and type aliases
TypeItems == {n \in DOMAIN items : items[n].item \in {"enum", "type"}}

\* C18: no enum body and no alias is emitted twice under one name: two
\* fields of A deriving from B.G give A one alias per view and B's enum one
\* body, and several fields of one register declaring a set of one name
\* give one body.
C18_EmittedOnce ==
    DistinctFields =>
        \A a \in TypeItems : \A b \in TypeItems :
            items[a].name = items[b].name => a = b

(***************************************************************************)
(* One more claim about access(), checked under SpecReg.                   *)
(***************************************************************************)
\* C19: a register without an explicit access mode and without fields, its
\* field list absent or empty, is classified ReadWrite; the classifier has
\* no error path and returns ReadOnly, WriteOnly or ReadWrite only.
C19_NoFieldsReadWrite ==
    /\ (pc = "registers" /\ k <= Len(registers)) => ENABLED Classify
    /\ Classified =>
          /\ (registers[k].access = None /\ ~WithFields(registers[k]))
                => acc = Some("ReadWrite")
          /\ acc \in {Some("ReadOnly"), Some("WriteOnly"), Some("ReadWrite")}

(***************************************************************************)
(* One more claim about the layout, checked under Spec.                    *)
(***************************************************************************)
\* bytes of the storage type gen_register gives the register of expanded[p]
StorageBytes(p) ==
    TyBits(unwrap(to_ty(unwrap(SizeOr(registers[expanded[p].info]))))) \div 8

TypedBytes(e) == IF IsReg(e) THEN StorageBytes(e.pos) ELSE e.bytes

RECURSIVE SumTypedBytes(_)
SumTypedBytes(s) ==
    IF s = <<>> THEN 0 ELSE TypedBytes(Head(s)) + SumTypedBytes(Tail(s))

\* C20: the emitted layout is byte-exact: with padding taken as its gap and
\* a retained register as the bytes of its storage type (1, 2 or 4, from
\* its bit size), every retained register's field begins at the byte
\* position of its declared offset, whatever the bit sizes from 1 to 32.
C20_ByteExact ==
    pc = "registers" =>
        \A n \in DOMAIN Layout :
            IsReg(Layout[n]) =>
                SumTypedBytes(SubSeq(Layout, 1, n - 1)) = expanded[Layout[n].pos].offset

(***************************************************************************)
(* One more claim about the aliases of derived sets, checked under         *)
(* SpecEnum.                                                               *)
(***************************************************************************)
\* the emitted type aliases, and the names of the emitted enum bodies
AliasItems == {n \in DOMAIN items : items[n].item = "type"}

BodyNames == {items[n].name : n \in {m \in DOMAIN items : items[m].item = "enum"}}

\* C21: when generation is through, every type alias emitted for a derived
\* set points at an enum whose body is among the emitted items: the
\* register the set was found on has generated that body for the view.
C21_AliasTargetEmitted ==
    pc = "done" => \A a \in AliasItems : items[a].origin \in BodyNames

====
